---- MODULE Spec2Model ----
(***************************************************************************)
(* Model of the vault package: Config (NewConfig, Validate, login option   *)
(* getters), the options (createDefaultOptions, With... providers),        *)
(* NewComponent and Component.GetSecret.                                   *)
(*                                                                         *)
(* The vault-go-client library and the Vault server are the environment:   *)
(* the outcome of vault.NewClient, of each Login and of each KV2.Get is    *)
(* chosen nondeterministically.                                            *)
(***************************************************************************)
EXTENDS Naturals, Sequences, FiniteSets, TLC

VARIABLES
    pc,             \* position of the caller: start, haveConfig, validate,
                    \* newClient, auth, ready, exited, crashed
    env,            \* the process environment read by NewConfig
    origin,         \* how the *Config was made: none, NewConfig, literal
    config,         \* the *Config handed to NewComponent
    options,        \* the variadic options handed to NewComponent
    opts,           \* the options struct built inside NewComponent
    validateErr,    \* result of config.Validate() inside NewComponent
    clientErr,      \* error result of vault.NewClient
    vaultClient,    \* the vault client (address and session token)
    logins,         \* every Login call made on the client, in order
    authErr,        \* result of opts.authProvider(vaultClient)
    authRuns,       \* number of times an AuthProvider was invoked
    clientsCreated, \* number of vault.NewClient calls
    component,      \* the *Component returned by NewComponent
    calls,          \* number of GetSecret calls
    reads,          \* number of KV2.Get calls issued
    lastCall,       \* the last GetSecret call: key, store response, return
    trace,          \* stages of NewComponent executed so far
    fatalMsg        \* message passed to opts.log.Fatal

vars == <<pc, env, origin, config, options, opts, validateErr, clientErr,
          vaultClient, logins, authErr, authRuns, clientsCreated, component,
          calls, reads, lastCall, trace, fatalMsg>>

(***************************************************************************)
(* Bounds                                                                  *)
(***************************************************************************)
MaxOptions == 2
MaxCalls == 2

(***************************************************************************)
(* Constants of the package                                                *)
(***************************************************************************)
emptyStr == ""
defaultURL == "https://your.vault.server.url/"

envSpaceName == "SPACE_NAME"
envSecretPath == "SECRET_PATH"
envAWSIAMRoleARN == "IAM_ROLE_ARN"
envAppRoleID == "APP_ROLE_ID"
envAppRoleSecretID == "APP_ROLE_SECRET_ID"

\* A format string is the sequence of its verbs and literal pieces.
secretsMountPathFormat == <<"%s", "/secrets">>
awsLoginPathFormat == <<"%s", "/aws">>
appRoleLoginPathFormat == <<"%s", "/approle">>
errFmtConfigValidation ==
    <<"failed to validate Vault Provider config, ", "%s", " is empty">>

\* Referenced by Validate, declared outside the files at hand.
propertySpaceName == "SpaceName"
propertySecretPath == "SecretPath"

(***************************************************************************)
(* Errors, fmt.Sprintf and fmt.Errorf                                      *)
(***************************************************************************)
NilErr == [nil |-> TRUE, msg |-> "", wraps |-> <<>>]
NewError(m) == [nil |-> FALSE, msg |-> m, wraps |-> <<>>]

IsVerb(piece) == piece \in {"%s", "%w"}

\* fmt.Sprintf: every verb is replaced by the next operand, in order.
RECURSIVE Sprintf(_, _)
Sprintf(format, args) ==
    IF format = <<>> THEN ""
    ELSE IF IsVerb(Head(format))
         THEN (IF args = <<>> THEN "%!s(MISSING)" ELSE Head(args))
              \o Sprintf(Tail(format), IF args = <<>> THEN <<>> ELSE Tail(args))
         ELSE Head(format) \o Sprintf(Tail(format), args)

\* The operands of the %w verbs of a format, in order.
RECURSIVE WrappedOperands(_, _)
WrappedOperands(format, args) ==
    IF format = <<>> \/ args = <<>> THEN <<>>
    ELSE IF Head(format) = "%w"
         THEN <<Head(args)>> \o WrappedOperands(Tail(format), Tail(args))
         ELSE IF Head(format) = "%s"
              THEN WrappedOperands(Tail(format), Tail(args))
              ELSE WrappedOperands(Tail(format), args)

\* fmt.Errorf with string operands.
Errorf(format, args) == NewError(Sprintf(format, args))

\* fmt.Errorf with error operands: the text uses each operand's Error(),
\* the result wraps the operands of the %w verbs.  (Several %w verbs in
\* one format are wrapped as of Go 1.20, which line 157 relies on.)
ErrorfW(format, errs) ==
    [nil |-> FALSE,
     msg |-> Sprintf(format, [i \in 1..Len(errs) |-> errs[i].msg]),
     wraps |-> WrappedOperands(format, errs)]

(***************************************************************************)
(* Config                                                                  *)
(***************************************************************************)
UnsetVar == [set |-> FALSE, value |-> ""]
SetVar(v) == [set |-> TRUE, value |-> v]

EnvNames == {envSpaceName, envSecretPath, envAWSIAMRoleARN, envAppRoleID,
             envAppRoleSecretID}

\* os.Getenv: the value, or the empty string for an unset variable.
Getenv(e, name) == IF e[name].set THEN e[name].value ELSE ""

NoEnv == [n \in EnvNames |-> UnsetVar]

Environments ==
    {[n \in EnvNames |->
        CASE n = envSpaceName -> sp
          [] n = envSecretPath -> path
          [] n = envAWSIAMRoleARN -> arn
          [] n = envAppRoleID -> rid
          [] n = envAppRoleSecretID -> sid] :
     sp \in {UnsetVar, SetVar(""), SetVar("TeamSpace")},
     path \in {UnsetVar, SetVar("mysecret-dev")},
     arn \in {UnsetVar, SetVar("arn:aws:iam::1:role/svc")},
     rid \in {UnsetVar, SetVar("role-id")},
     sid \in {UnsetVar, SetVar("secret-id")}}

Config(space, path, mount, aws, approle, arn, rid, sid) ==
    [SpaceName |-> space, SecretPath |-> path, SecretMountPath |-> mount,
     AWSLoginPath |-> aws, AppRoleLoginPath |-> approle,
     AWSIAMRoleArn |-> arn, AppRoleID |-> rid, AppRoleSecretID |-> sid]

NoConfig == Config("", "", "", "", "", "", "", "")

\* NewConfig with the mount path formatted by the AWS login path format.
NewConfigWrongFormat(e) ==
    LET spaceName == Getenv(e, envSpaceName)
    IN Config(spaceName,
              Getenv(e, envSecretPath),
              Sprintf(awsLoginPathFormat, <<spaceName>>),
              Sprintf(awsLoginPathFormat, <<spaceName>>),
              Sprintf(appRoleLoginPathFormat, <<spaceName>>),
              Getenv(e, envAWSIAMRoleARN),
              Getenv(e, envAppRoleID),
              Getenv(e, envAppRoleSecretID))

NewConfig(e) ==
    LET spaceName == Getenv(e, envSpaceName)
    IN Config(spaceName,
              Getenv(e, envSecretPath),
              Sprintf(secretsMountPathFormat, <<spaceName>>),
              Sprintf(awsLoginPathFormat, <<spaceName>>),
              Sprintf(appRoleLoginPathFormat, <<spaceName>>),
              Getenv(e, envAWSIAMRoleARN),
              Getenv(e, envAppRoleID),
              Getenv(e, envAppRoleSecretID))

\* Config is an exported struct with exported fields: a caller may also
\* hand NewComponent a composite literal.
LiteralConfigs ==
    {Config(space, path, mount, aws, "TeamSpace/approle", "", "role-id", "secret-id") :
        space \in {"", "TeamSpace"},
        path \in {"", "mysecret-dev"},
        mount \in {"TeamSpace/secrets", "kv"},
        aws \in {"TeamSpace/aws", "aws"}}

getIAMLoginOptions(c) == [Role |-> c.AWSIAMRoleArn, MountPath |-> c.AWSLoginPath]

getAppRoleLoginOptions(c) ==
    [RoleID |-> c.AppRoleID, SecretID |-> c.AppRoleSecretID,
     MountPath |-> c.AppRoleLoginPath]

\* Validate with the two checks in the other order.
ValidateSecretPathFirst(c) ==
    IF c.SecretPath = emptyStr
    THEN Errorf(errFmtConfigValidation, <<propertySecretPath>>)
    ELSE IF c.SpaceName = emptyStr
         THEN Errorf(errFmtConfigValidation, <<propertySpaceName>>)
         ELSE NilErr

\* Validate without the secret path check.
ValidateSpaceNameOnly(c) ==
    IF c.SpaceName = emptyStr
    THEN Errorf(errFmtConfigValidation, <<propertySpaceName>>)
    ELSE NilErr

Validate(c) ==
    IF c.SpaceName = emptyStr
    THEN Errorf(errFmtConfigValidation, <<propertySpaceName>>)
    ELSE IF c.SecretPath = emptyStr
         THEN Errorf(errFmtConfigValidation, <<propertySecretPath>>)
         ELSE NilErr

(***************************************************************************)
(* The vault client library (environment)                                  *)
(***************************************************************************)
ErrNewClient == NewError("invalid vault address")
ErrIAMLogin == NewError("iam login denied")
ErrAppRoleLogin == NewError("approle login denied")
ErrKV2Get == NewError("kv2 get failed")

NewClientResults == {NilErr, ErrNewClient}
IAMLoginResults == {NilErr, ErrIAMLogin}
AppRoleLoginResults == {NilErr, ErrAppRoleLogin}

NoClient == [Address |-> "", token |-> ""]

\* One Login call on the client, as the library sees it.
LoginCall(method, loginOptions, result) ==
    [method |-> method, options |-> loginOptions, err |-> result]

\* A successful Login stores its session token in the client.
RECURSIVE ClientAfterLogins(_, _)
ClientAfterLogins(client, ls) ==
    IF ls = <<>> THEN client
    ELSE ClientAfterLogins(
            IF Head(ls).err.nil
            THEN [client EXCEPT !.token = "token:" \o Head(ls).method]
            ELSE client,
            Tail(ls))

\* interface{} values of a secret document.
NilVal == [type |-> "nil"]
StrVal(s) == [type |-> "string", v |-> s]
\* A JSON number, held by its text.
NumVal(text) == [type |-> "float64", v |-> text]
MapVal(m) == [type |-> "map", m |-> m]

EmptyMap == [k \in {} |-> NilVal]

\* Indexing a Go map: the zero value (nil interface) for an absent key.
Lookup(m, k) == IF k \in DOMAIN m THEN m[k] ELSE NilVal

Maps(keys, values) == UNION {[d -> values] : d \in SUBSET keys}

Payloads ==
    {p \in Maps({"password", "user"}, {StrVal("s3cr3t"), StrVal("admin"), NumVal("42")}) :
        /\ "password" \in DOMAIN p => p["password"] # StrVal("admin")
        /\ "user" \in DOMAIN p => p["user"] = StrVal("admin")}

Documents ==
    {EmptyMap, [k \in {"data"} |-> StrVal("v1-value")]}
        \cup {[k \in {"data"} |-> MapVal(p)] : p \in Payloads}

\* What KV2.Get hands back: (*Secret, error).
KV2GetResults ==
    {[err |-> ErrKV2Get, Data |-> EmptyMap]}
        \cup {[err |-> NilErr, Data |-> d] : d \in Documents}

SecretKeys == {"password", "user", "missing"}

(***************************************************************************)
(* Options and authentication providers                                    *)
(***************************************************************************)
ExplicitIAMLoginOptions == [Role |-> "explicit-role", MountPath |-> "custom/aws"]
ExplicitAppRoleLoginOptions ==
    [RoleID |-> "explicit-id", SecretID |-> "explicit-secret",
     MountPath |-> "custom/approle"]

WithLogger(l) == [name |-> "WithLogger", log |-> l]
WithURL(url) == [name |-> "WithURL", url |-> url]
WithDefaultChainAuthProvider(c) ==
    [name |-> "WithDefaultChainAuthProvider", config |-> c]
WithIAMAuthProvider(loginOptions) ==
    [name |-> "WithIAMAuthProvider", loginOptions |-> loginOptions]
WithAppRoleAuthProvider(loginOptions) ==
    [name |-> "WithAppRoleAuthProvider", loginOptions |-> loginOptions]

AuthOptionNames == {"WithDefaultChainAuthProvider", "WithIAMAuthProvider",
                    "WithAppRoleAuthProvider"}

\* The options a caller holding config c may pass.
OptionValues(c) ==
    {WithLogger("custom"), WithURL("https://vault.test/"),
     WithDefaultChainAuthProvider(c),
     WithIAMAuthProvider(ExplicitIAMLoginOptions),
     WithAppRoleAuthProvider(ExplicitAppRoleLoginOptions)}

OptionLists(c) == UNION {[1..n -> OptionValues(c)] : n \in 0..MaxOptions}

\* The closures stored in options.authProvider.
ChainProvider(c) == [kind |-> "chain", config |-> c]
IAMProvider(loginOptions) == [kind |-> "iam", loginOptions |-> loginOptions]
AppRoleProvider(loginOptions) == [kind |-> "approle", loginOptions |-> loginOptions]
NoProvider == [kind |-> "none"]

NoOpts == [log |-> "", url |-> "", authProvider |-> NoProvider]

\* option(opts): the effect of one Option on the options struct.
ApplyOption(option, o) ==
    CASE option.name = "WithLogger" -> [o EXCEPT !.log = option.log]
      [] option.name = "WithURL" -> [o EXCEPT !.url = option.url]
      [] option.name = "WithDefaultChainAuthProvider" ->
            [o EXCEPT !.authProvider = ChainProvider(option.config)]
      [] option.name = "WithIAMAuthProvider" ->
            [o EXCEPT !.authProvider = IAMProvider(option.loginOptions)]
      [] option.name = "WithAppRoleAuthProvider" ->
            [o EXCEPT !.authProvider = AppRoleProvider(option.loginOptions)]

createDefaultOptions(c) ==
    ApplyOption(WithDefaultChainAuthProvider(c),
                [log |-> "zap.L()", url |-> defaultURL, authProvider |-> NoProvider])

\* The options applied last to first.
RECURSIVE ApplyOptionsReversed(_, _)
ApplyOptionsReversed(os, o) ==
    IF os = <<>> THEN o
    ELSE ApplyOption(Head(os), ApplyOptionsReversed(Tail(os), o))

\* for _, option := range options { option(opts) }
RECURSIVE ApplyOptions(_, _)
ApplyOptions(os, o) ==
    IF os = <<>> THEN o ELSE ApplyOptions(Tail(os), ApplyOption(Head(os), o))

\* The chain without the early return after a successful IAM login.
DefaultChainNoShortCircuit(c, iamErr, appRoleErr) ==
    LET iam == LoginCall("IAM", getIAMLoginOptions(c), iamErr)
        appRole == LoginCall("AppRole", getAppRoleLoginOptions(c), appRoleErr)
    IN [logins |-> <<iam, appRole>>,
        err |-> IF iamErr.nil \/ appRoleErr.nil THEN NilErr
                ELSE ErrorfW(<<"%w", "; ", "%w">>, <<iamErr, appRoleErr>>)]

\* The chain returning only the last failure.
DefaultChainLastErrorOnly(c, iamErr, appRoleErr) ==
    LET iam == LoginCall("IAM", getIAMLoginOptions(c), iamErr)
        appRole == LoginCall("AppRole", getAppRoleLoginOptions(c), appRoleErr)
    IN IF iamErr.nil
       THEN [logins |-> <<iam>>, err |-> NilErr]
       ELSE [logins |-> <<iam, appRole>>, err |-> appRoleErr]

\* The provider installed by WithDefaultChainAuthProvider, run against a
\* server that answers the IAM login with iamErr and the AppRole login with
\* appRoleErr.  Yields the Login calls made and the returned error.
DefaultChainAuthProvider(c, iamErr, appRoleErr) ==
    LET iam == LoginCall("IAM", getIAMLoginOptions(c), iamErr)
        appRole == LoginCall("AppRole", getAppRoleLoginOptions(c), appRoleErr)
    IN IF iamErr.nil
       THEN [logins |-> <<iam>>, err |-> NilErr]
       ELSE IF appRoleErr.nil
            THEN [logins |-> <<iam, appRole>>, err |-> NilErr]
            ELSE [logins |-> <<iam, appRole>>,
                  err |-> ErrorfW(<<"%w", "; ", "%w">>, <<iamErr, appRoleErr>>)]

IAMAuthProvider(loginOptions, iamErr) ==
    [logins |-> <<LoginCall("IAM", loginOptions, iamErr)>>, err |-> iamErr]

AppRoleAuthProvider(loginOptions, appRoleErr) ==
    [logins |-> <<LoginCall("AppRole", loginOptions, appRoleErr)>>,
     err |-> appRoleErr]

\* opts.authProvider(vaultClient)
RunAuthProvider(provider, iamErr, appRoleErr) ==
    CASE provider.kind = "chain" ->
            DefaultChainAuthProvider(provider.config, iamErr, appRoleErr)
      [] provider.kind = "iam" -> IAMAuthProvider(provider.loginOptions, iamErr)
      [] provider.kind = "approle" ->
            AppRoleAuthProvider(provider.loginOptions, appRoleErr)

(***************************************************************************)
(* Component                                                               *)
(***************************************************************************)
NoComponent == [made |-> FALSE, config |-> NoConfig, vaultClient |-> NoClient]

Returned(secret, err) == [panic |-> FALSE, secret |-> secret, err |-> err]
Panicked == [panic |-> TRUE, secret |-> "", err |-> NilErr]

\* GetSecret that swallows a read error.
GetSecretSwallowsReadError(c, key, resp) ==
    LET get == [MountPath |-> c.config.SecretMountPath,
                SecretPath |-> c.config.SecretPath]
        data == Lookup(resp.Data, "data")
        ret ==
            IF ~resp.err.nil THEN Returned(emptyStr, NilErr)
            ELSE IF data.type # "map" THEN Panicked
            ELSE IF Lookup(data.m, key).type # "string" THEN Panicked
            ELSE Returned(Lookup(data.m, key).v, NilErr)
    IN [kvGets |-> <<get>>, ret |-> ret]

\* GetSecret that reads a second time after a failed read.
GetSecretRetries(c, key, resp) ==
    LET get == [MountPath |-> c.config.SecretMountPath,
                SecretPath |-> c.config.SecretPath]
        data == Lookup(resp.Data, "data")
        ret ==
            IF ~resp.err.nil THEN Returned(emptyStr, resp.err)
            ELSE IF data.type # "map" THEN Panicked
            ELSE IF Lookup(data.m, key).type # "string" THEN Panicked
            ELSE Returned(Lookup(data.m, key).v, NilErr)
    IN [kvGets |-> IF resp.err.nil THEN <<get>> ELSE <<get, get>>, ret |-> ret]

\* Component.GetSecret against a store that answers the read with resp.
\* kvGets are the KV2.Get calls issued, ret is what the caller observes.
GetSecret(c, key, resp) ==
    LET get == [MountPath |-> c.config.SecretMountPath,
                SecretPath |-> c.config.SecretPath]
        data == Lookup(resp.Data, "data")
        ret ==
            IF ~resp.err.nil THEN Returned(emptyStr, resp.err)
            ELSE IF data.type # "map" THEN Panicked
            ELSE IF Lookup(data.m, key).type # "string" THEN Panicked
            ELSE Returned(Lookup(data.m, key).v, NilErr)
    IN [kvGets |-> <<get>>, ret |-> ret]

NoCall == [key |-> "", resp |-> [err |-> NilErr, Data |-> EmptyMap],
           kvGets |-> <<>>, ret |-> Returned("", NilErr)]

\* A failed validation that is logged without ending the process.
AfterValidateNotFatal(err) == "newClient"

\* opts.log.Fatal ends the process (zap: Fatal logs, then calls os.Exit(1),
\* for the global logger and for one set by WithLogger alike); otherwise
\* control goes on.
AfterValidate(err) == IF err.nil THEN "newClient" ELSE "exited"
AfterNewClient(err) == IF err.nil THEN "auth" ELSE "exited"
AfterAuth(err) == IF err.nil THEN "ready" ELSE "exited"

(***************************************************************************)
(* Behaviour                                                               *)
(***************************************************************************)
Init ==
    /\ pc = "start"
    /\ env = NoEnv
    /\ origin = "none"
    /\ config = NoConfig
    /\ options = <<>>
    /\ opts = NoOpts
    /\ validateErr = NilErr
    /\ clientErr = NilErr
    /\ vaultClient = NoClient
    /\ logins = <<>>
    /\ authErr = NilErr
    /\ authRuns = 0
    /\ clientsCreated = 0
    /\ component = NoComponent
    /\ calls = 0
    /\ reads = 0
    /\ lastCall = NoCall
    /\ trace = <<>>
    /\ fatalMsg = ""

\* config := NewConfig() in an environment e
CallNewConfig ==
    /\ pc = "start"
    /\ \E e \in Environments :
        /\ env' = e
        /\ config' = NewConfig(e)
    /\ origin' = "NewConfig"
    /\ pc' = "haveConfig"
    /\ UNCHANGED <<options, opts, validateErr, clientErr, vaultClient, logins,
                   authErr, authRuns, clientsCreated, component, calls, reads,
                   lastCall, trace, fatalMsg>>

\* config := &Config{...}
MakeLiteralConfig ==
    /\ pc = "start"
    /\ \E c \in LiteralConfigs : config' = c
    /\ origin' = "literal"
    /\ pc' = "haveConfig"
    /\ UNCHANGED <<env, options, opts, validateErr, clientErr, vaultClient,
                   logins, authErr, authRuns, clientsCreated, component, calls,
                   reads, lastCall, trace, fatalMsg>>

\* NewComponent(config, options...): default options, then each option
NewComponentOptions ==
    /\ pc = "haveConfig"
    /\ \E os \in OptionLists(config) :
        /\ options' = os
        /\ opts' = ApplyOptions(os, createDefaultOptions(config))
    /\ trace' = Append(trace, "options")
    /\ pc' = "validate"
    /\ UNCHANGED <<env, origin, config, validateErr, clientErr, vaultClient,
                   logins, authErr, authRuns, clientsCreated, component, calls,
                   reads, lastCall, fatalMsg>>

\* NewComponent: config.Validate(), fatal on error
NewComponentValidate ==
    /\ pc = "validate"
    /\ validateErr' = Validate(config)
    /\ trace' = Append(trace, "validate")
    /\ pc' = AfterValidate(validateErr')
    /\ fatalMsg' = IF pc' = "exited" THEN validateErr'.msg ELSE fatalMsg
    /\ UNCHANGED <<env, origin, config, options, opts, clientErr, vaultClient,
                   logins, authErr, authRuns, clientsCreated, component, calls,
                   reads, lastCall>>

\* NewComponent: vault.NewClient at opts.url, fatal on error
NewComponentClient ==
    /\ pc = "newClient"
    /\ \E err \in NewClientResults :
        /\ clientErr' = err
        /\ vaultClient' = IF err.nil THEN [Address |-> opts.url, token |-> ""]
                          ELSE vaultClient
    /\ clientsCreated' = clientsCreated + 1
    /\ trace' = Append(trace, "newClient")
    /\ pc' = AfterNewClient(clientErr')
    /\ fatalMsg' =
         IF pc' = "exited"
         THEN Sprintf(<<"failed to initialize Vault client, err: ", "%s">>,
                      <<clientErr'.msg>>)
         ELSE fatalMsg
    /\ UNCHANGED <<env, origin, config, options, opts, validateErr, logins,
                   authErr, authRuns, component, calls, reads, lastCall>>

\* NewComponent: opts.authProvider(vaultClient), fatal on error, else return
NewComponentAuth ==
    /\ pc = "auth"
    /\ \E iamErr \in IAMLoginResults, appRoleErr \in AppRoleLoginResults :
        LET r == RunAuthProvider(opts.authProvider, iamErr, appRoleErr)
        IN /\ logins' = logins \o r.logins
           /\ authErr' = r.err
           /\ vaultClient' = ClientAfterLogins(vaultClient, r.logins)
    /\ authRuns' = authRuns + 1
    /\ trace' = Append(trace, "auth")
    /\ pc' = AfterAuth(authErr')
    /\ fatalMsg' =
         IF pc' = "exited"
         THEN Sprintf(<<"failed to authenticate Vault client, err: ", "%s">>,
                      <<authErr'.msg>>)
         ELSE fatalMsg
    /\ component' =
         IF pc' = "ready"
         THEN [made |-> TRUE, config |-> config, vaultClient |-> vaultClient']
         ELSE component
    /\ UNCHANGED <<env, origin, config, options, opts, validateErr, clientErr,
                   clientsCreated, calls, reads, lastCall>>

\* component.GetSecret(key); a panic either ends the process or is
\* recovered by the caller, who may then call again.
CallGetSecret ==
    /\ pc = "ready"
    /\ calls < MaxCalls
    /\ \E key \in SecretKeys, resp \in KV2GetResults :
        LET r == GetSecret(component, key, resp)
        IN /\ lastCall' = [key |-> key, resp |-> resp, kvGets |-> r.kvGets,
                           ret |-> r.ret]
           /\ reads' = reads + Len(r.kvGets)
           /\ pc' \in IF r.ret.panic THEN {"ready", "crashed"} ELSE {"ready"}
    /\ calls' = calls + 1
    /\ UNCHANGED <<env, origin, config, options, opts, validateErr, clientErr,
                   vaultClient, logins, authErr, authRuns, clientsCreated,
                   component, trace, fatalMsg>>

Next ==
    \/ CallNewConfig
    \/ MakeLiteralConfig
    \/ NewComponentOptions
    \/ NewComponentValidate
    \/ NewComponentClient
    \/ NewComponentAuth
    \/ CallGetSecret

Spec == Init /\ [][Next]_vars

(***************************************************************************)
(* Properties                                                              *)
(***************************************************************************)
Validated == Len(trace) >= 2
ChainRan == authRuns > 0 /\ opts.authProvider.kind = "chain"
IsAuthOption(o) == o.name \in AuthOptionNames
AuthOptions == SelectSeq(options, IsAuthOption)
EnvValue(name) == IF env[name].set THEN env[name].value ELSE ""
Payload(resp) == Lookup(resp.Data, "data")
HasPayload(resp) == resp.err.nil /\ Payload(resp).type = "map"
HasString(resp, key) ==
    /\ HasPayload(resp)
    /\ key \in DOMAIN Payload(resp).m
    /\ Payload(resp).m[key].type = "string"
DerivedPaths(c) ==
    /\ c.SecretMountPath = c.SpaceName \o "/secrets"
    /\ c.AWSLoginPath = c.SpaceName \o "/aws"
    /\ c.AppRoleLoginPath = c.SpaceName \o "/approle"
Stages == <<"options", "validate", "newClient", "auth">>

\* C1: the default chain logs in with IAM first and AppRole second and
\* stops at the first success: after a successful IAM login no AppRole
\* login is made and the chain returns nil; an AppRole login is made only
\* after a failed IAM login, and when it succeeds the chain returns nil and
\* NewComponent returns the Component.
C1_ChainShortCircuit ==
    ChainRan =>
        /\ Len(logins) \in {1, 2}
        /\ logins[1].method = "IAM"
        /\ logins[1].err.nil =>
            /\ Len(logins) = 1
            /\ authErr = NilErr
            /\ component.made
        /\ Len(logins) = 2 =>
            /\ ~logins[1].err.nil
            /\ logins[2].method = "AppRole"
            /\ logins[2].err.nil => (authErr = NilErr /\ component.made)

C1_Witness ==
    /\ ChainRan
    /\ Len(logins) = 2
    /\ ~logins[1].err.nil
    /\ logins[2].err.nil
    /\ pc = "ready"

\* C2: when the IAM login and the AppRole login both fail, the default
\* chain returns a non-nil error that wraps both failures and whose text
\* holds both messages; the chain returns a non-nil error only when both
\* logins were made and both failed.
C2_ChainCombinedError ==
    ChainRan =>
        LET bothFailed == /\ Len(logins) = 2
                          /\ ~logins[1].err.nil
                          /\ ~logins[2].err.nil
        IN /\ ~authErr.nil => bothFailed
           /\ bothFailed =>
                /\ ~authErr.nil
                /\ authErr.wraps = <<logins[1].err, logins[2].err>>
                /\ authErr.msg = logins[1].err.msg \o "; " \o logins[2].err.msg

C2_Witness ==
    /\ ChainRan
    /\ logins = <<LoginCall("IAM", getIAMLoginOptions(config), ErrIAMLogin),
                  LoginCall("AppRole", getAppRoleLoginOptions(config),
                            ErrAppRoleLogin)>>
    /\ ~authErr.nil

\* C3: GetSecret(key) against a document that was read and whose nested
\* data payload has no string at key returns an explicit error and does
\* not panic.
C3_MissingKeyExplicitError ==
    (/\ calls > 0
     /\ HasPayload(lastCall.resp)
     /\ ~HasString(lastCall.resp, lastCall.key))
        => (~lastCall.ret.panic /\ ~lastCall.ret.err.nil)

\* C4: Validate returns an error exactly when the space name or the secret
\* path is empty; the error names the space name when that is empty
\* (whatever the secret path) and the secret path otherwise; it returns nil
\* whenever both are non-empty.
C4_ValidateFirstMissing ==
    Validated =>
        /\ ~validateErr.nil <=>
                (config.SpaceName = "" \/ config.SecretPath = "")
        /\ config.SpaceName = "" =>
                validateErr.msg = "failed to validate Vault Provider config, "
                                    \o propertySpaceName \o " is empty"
        /\ (config.SpaceName # "" /\ config.SecretPath = "") =>
                validateErr.msg = "failed to validate Vault Provider config, "
                                    \o propertySecretPath \o " is empty"
        /\ (config.SpaceName # "" /\ config.SecretPath # "") =>
                validateErr = NilErr

C4_Witness ==
    /\ Validated
    /\ config.SpaceName = ""
    /\ config.SecretPath = ""
    /\ ~validateErr.nil

\* C5 as stated: the configuration of every constructed Component has a
\* non-empty space name and secret path and its three derived paths are
\* the space name followed by /secrets, /aws and /approle.
C5_DerivedPathsAlways ==
    component.made =>
        /\ component.config.SpaceName # ""
        /\ component.config.SecretPath # ""
        /\ DerivedPaths(component.config)

\* C5: the configuration of every constructed Component is the one handed
\* to NewComponent, has a non-empty space name and secret path, and, when
\* it was produced by NewConfig, its three derived paths are the space name
\* followed by /secrets, /aws and /approle; this holds after every
\* GetSecret call.
C5_ConfigInvariant ==
    component.made =>
        /\ component.config = config
        /\ component.config.SpaceName # ""
        /\ component.config.SecretPath # ""
        /\ origin = "NewConfig" => DerivedPaths(component.config)

C5_Witness ==
    /\ component.made
    /\ origin = "NewConfig"
    /\ calls > 0
    /\ component.config.SecretMountPath = "TeamSpace/secrets"

\* C6: the configuration NewConfig produces has the mount path SPACE_NAME
\* followed by /secrets, the AWS login path SPACE_NAME followed by /aws,
\* the role login path SPACE_NAME followed by /approle, and every other
\* field equal to its environment variable, the empty string when unset.
C6_NewConfigDerivedPaths ==
    origin = "NewConfig" =>
        /\ config.SpaceName = EnvValue("SPACE_NAME")
        /\ config.SecretPath = EnvValue("SECRET_PATH")
        /\ config.SecretMountPath = EnvValue("SPACE_NAME") \o "/secrets"
        /\ config.AWSLoginPath = EnvValue("SPACE_NAME") \o "/aws"
        /\ config.AppRoleLoginPath = EnvValue("SPACE_NAME") \o "/approle"
        /\ config.AWSIAMRoleArn = EnvValue("IAM_ROLE_ARN")
        /\ config.AppRoleID = EnvValue("APP_ROLE_ID")
        /\ config.AppRoleSecretID = EnvValue("APP_ROLE_SECRET_ID")

C6_Witness ==
    /\ origin = "NewConfig"
    /\ env["SPACE_NAME"] = SetVar("TeamSpace")
    /\ ~env["IAM_ROLE_ARN"].set
    /\ config.SecretMountPath = "TeamSpace/secrets"
    /\ config.AWSLoginPath = "TeamSpace/aws"
    /\ config.AppRoleLoginPath = "TeamSpace/approle"
    /\ config.AWSIAMRoleArn = ""

\* C7: when the read succeeds and the nested data payload holds a string at
\* key, GetSecret returns exactly that string and a nil error; when the
\* read fails, GetSecret returns the empty string and the store's error.
C7_SecretOrStoreError ==
    calls > 0 =>
        /\ HasString(lastCall.resp, lastCall.key) =>
                /\ ~lastCall.ret.panic
                /\ lastCall.ret.secret = Payload(lastCall.resp).m[lastCall.key].v
                /\ lastCall.ret.err = NilErr
        /\ ~lastCall.resp.err.nil =>
                /\ ~lastCall.ret.panic
                /\ lastCall.ret.secret = ""
                /\ lastCall.ret.err = lastCall.resp.err

C7_WitnessSecret ==
    /\ calls > 0
    /\ lastCall.key = "password"
    /\ lastCall.resp.err.nil
    /\ lastCall.resp.Data =
         [k \in {"data"} |-> MapVal([j \in {"password"} |-> StrVal("s3cr3t")])]
    /\ lastCall.ret = Returned("s3cr3t", NilErr)

\* C8: the authentication provider runs once, during construction and
\* before any read; a GetSecret call makes no login, leaves the client and
\* the Component as they are, and issues exactly one read, at the
\* configured mount path and secret path, also when the read fails.
C8_Step ==
    /\ authRuns' # authRuns =>
            /\ authRuns = 0
            /\ authRuns' = 1
            /\ calls = 0
            /\ reads = 0
            /\ ~component.made
    /\ logins' # logins => authRuns' # authRuns
    /\ clientsCreated' # clientsCreated =>
            (clientsCreated = 0 /\ ~component.made)
    /\ vaultClient' # vaultClient => ~component.made
    /\ reads' # reads => calls' # calls
    /\ calls' # calls =>
            /\ component.made
            /\ authRuns = 1
            /\ calls' = calls + 1
            /\ reads' = reads + 1
            /\ lastCall'.kvGets =
                 <<[MountPath |-> config.SecretMountPath,
                    SecretPath |-> config.SecretPath]>>
            /\ component' = component
            /\ logins' = logins
            /\ authRuns' = authRuns
            /\ vaultClient' = vaultClient

C8_AuthOnceOneReadPerCall == [][C8_Step]_vars

C8_Witness ==
    /\ calls >= 2
    /\ reads = calls
    /\ authRuns = 1
    /\ ~lastCall.resp.err.nil

\* C9: NewComponent validates, then creates the client, then
\* authenticates; a failed validation ends the process before any client
\* is created or login made, a failed client creation or authentication
\* ends the process, and a Component exists only after all three have
\* succeeded, holding an authenticated client.
C9_FatalOrderedConstruction ==
    /\ trace = SubSeq(Stages, 1, Len(trace))
    /\ (Validated /\ ~validateErr.nil) =>
            /\ pc = "exited"
            /\ trace = <<"options", "validate">>
            /\ clientsCreated = 0
            /\ authRuns = 0
            /\ logins = <<>>
    /\ ~clientErr.nil =>
            /\ pc = "exited"
            /\ authRuns = 0
            /\ logins = <<>>
    /\ ~authErr.nil => pc = "exited"
    /\ pc = "exited" => (~component.made /\ fatalMsg # "")
    /\ component.made <=>
            /\ trace = Stages
            /\ validateErr.nil
            /\ clientErr.nil
            /\ authErr.nil
    /\ component.made =>
            /\ clientsCreated = 1
            /\ authRuns = 1
            /\ component.vaultClient.token # ""

C9_Witness ==
    /\ pc = "exited"
    /\ Validated
    /\ ~validateErr.nil
    /\ clientsCreated = 0
    /\ logins = <<>>

\* C10: without an auth option NewComponent runs the default chain built
\* from the configuration; with auth options the last one decides, and a
\* WithIAMAuthProvider or WithAppRoleAuthProvider makes exactly one login
\* of that method with the caller's login options and returns its error.
C10_ProviderReplaceable ==
    LET n == Len(AuthOptions)
        last == AuthOptions[n]
    IN /\ (Len(trace) >= 1 /\ n = 0) =>
                opts.authProvider = [kind |-> "chain", config |-> config]
       /\ (authRuns > 0 /\ n = 0) =>
                /\ logins[1].method = "IAM"
                /\ logins[1].options = [Role |-> config.AWSIAMRoleArn,
                                        MountPath |-> config.AWSLoginPath]
                /\ Len(logins) = 2 =>
                      /\ logins[2].method = "AppRole"
                      /\ logins[2].options =
                            [RoleID |-> config.AppRoleID,
                             SecretID |-> config.AppRoleSecretID,
                             MountPath |-> config.AppRoleLoginPath]
       /\ (authRuns > 0 /\ n > 0) =>
            /\ last.name = "WithIAMAuthProvider" =>
                    /\ Len(logins) = 1
                    /\ logins[1].method = "IAM"
                    /\ logins[1].options = last.loginOptions
                    /\ authErr = logins[1].err
            /\ last.name = "WithAppRoleAuthProvider" =>
                    /\ Len(logins) = 1
                    /\ logins[1].method = "AppRole"
                    /\ logins[1].options = last.loginOptions
                    /\ authErr = logins[1].err
            /\ last.name = "WithDefaultChainAuthProvider" =>
                    /\ logins[1].method = "IAM"
                    /\ logins[1].options = getIAMLoginOptions(last.config)

C10_Witness ==
    /\ Len(AuthOptions) = 2
    /\ AuthOptions[1].name = "WithAppRoleAuthProvider"
    /\ AuthOptions[2].name = "WithIAMAuthProvider"
    /\ authRuns = 1
    /\ logins = <<LoginCall("IAM", ExplicitIAMLoginOptions, ErrIAMLogin)>>
    /\ authErr = ErrIAMLogin
    /\ ExplicitIAMLoginOptions # getIAMLoginOptions(config)

====
